---- MODULE Spec2Model ----
(***************************************************************************)
(* The anomaly scanner of bytebase (server/anomaly_scanner.go): the scan   *)
(* loop of AnomalyScanner.Run, the two detectors checkDatabaseAnomaly and  *)
(* checkBackupAnomaly, the anomaly ledger they write to, and the policy    *)
(* validation of the api package.                                          *)
(*                                                                         *)
(* Specifications:                                                         *)
(*   Spec        one scanner goroutine (the program as written)            *)
(*   FairSpec    Spec with weak fairness of the goroutine's steps          *)
(*   SpecConc    NumScanners loop bodies sharing runningTasks and mu       *)
(*   SpecDetect  the two detectors applied to arbitrary inputs             *)
(*   SpecPolicy  ValidatePolicy and GetDefaultPolicy on arbitrary arguments*)
(***************************************************************************)
EXTENDS Integers, Sequences, FiniteSets, TLC

\* ------------------------------------------------------------------ bounds
NumEnvironments == 2
NumInstances == 2
NumDatabases == 2
NumScanners == 2

Environments == 1..NumEnvironments
Instances == 1..NumInstances
Databases == 1..NumDatabases
Tasks == 1..NumScanners

\* instance.EnvironmentId and database.InstanceId of the topology store.
EnvironmentIdOf(i) == ((i - 1) % NumEnvironments) + 1
InstanceIdOf(d) == ((d - 1) % NumInstances) + 1

\* The nil *api.Environment.
NIL == 0

\* ------------------------------------------------------------- api values
Normal == "NORMAL"
Archived == "ARCHIVED"

AnomalyDatabaseConnection == "DatabaseConnection"
AnomalyDatabaseSchemaDrift == "DatabaseSchemaDrift"
AnomalyDatabaseBackupPolicyViolation == "DatabaseBackupPolicyViolation"
AnomalyDatabaseBackupMissing == "DatabaseBackupMissing"
AnomalyTypes ==
    {AnomalyDatabaseConnection, AnomalyDatabaseSchemaDrift,
     AnomalyDatabaseBackupPolicyViolation, AnomalyDatabaseBackupMissing}

BackupPlanPolicyScheduleUnset == "UNSET"
BackupPlanPolicyScheduleDaily == "DAILY"
BackupPlanPolicyScheduleWeekly == "WEEKLY"
Schedules ==
    {BackupPlanPolicyScheduleUnset, BackupPlanPolicyScheduleDaily,
     BackupPlanPolicyScheduleWeekly}

\* Schema texts a dump or a migration-history record can hold.
Schemas == {"schemaA", "schemaB"}

VARIABLES
    ledger,               \* [database][type] -> number of active anomaly rows
    runningTasks,         \* the set of instance ids being scanned
    mu,                   \* holder of the mutex guarding runningTasks, 0 = free
    environmentStore,     \* environment id -> row status, "NONE" = no such row
    policyStore,          \* environment id -> schedule of its backup plan policy
    pc,                   \* position of each goroutine, "off" = not started
    environmentList,      \* the round's loaded environments
    backupPlanPolicyMap,  \* the round's environment id -> schedule
    instanceList,         \* the round's loaded instances
    instIdx,              \* index of the instance at hand in instanceList
    dbList,               \* databases of the instance at hand
    dbIdx,                \* index of the database at hand in dbList
    panicking,            \* a panic is unwinding the round
    roundLog,             \* what the round has done so far (observation only)
    call                  \* the last detector call: inputs and trace (observation only)

vars ==
    <<ledger, runningTasks, mu, environmentStore, policyStore, pc,
      environmentList, backupPlanPolicyMap, instanceList, instIdx, dbList,
      dbIdx, panicking, roundLog, call>>

\* ----------------------------------------------------------------- helpers
RECURSIVE SortedSeq(_)
SortedSeq(S) ==
    IF S = {} THEN <<>>
    ELSE LET m == CHOOSE x \in S : \A y \in S : x <= y
         IN <<m>> \o SortedSeq(S \ {m})

\* ------------------------------------------------------ the anomaly ledger
\* AnomalyService.UpsertActiveAnomaly: the active row of (d, ty) is created
\* when there is none and overwritten when there is one.  ok = FALSE is a
\* store failure, which writes nothing.
UpsertActiveAnomaly(l, d, ty, ok) ==
    IF ~ok THEN [ledger |-> l, err |-> "Internal"]
    ELSE [ledger |-> IF l[d][ty] = 0 THEN [l EXCEPT ![d][ty] = 1] ELSE l,
          err |-> "nil"]

\* AnomalyService.ArchiveAnomaly: archives the active row of (d, ty);
\* NotFound when there is none.
ArchiveAnomaly(l, d, ty, ok) ==
    IF ~ok THEN [ledger |-> l, err |-> "Internal"]
    ELSE IF l[d][ty] = 0 THEN [ledger |-> l, err |-> "NotFound"]
    ELSE [ledger |-> [l EXCEPT ![d][ty] = 0], err |-> "nil"]

\* One s.l.Error call is counted per logged failure.
UpsertLogged(err) == IF err /= "nil" THEN 1 ELSE 0
ArchiveLogged(err) == IF err /= "nil" /\ err /= "NotFound" THEN 1 ELSE 0

\* ------------------------------------------------------------ clock values
\* Timestamps and durations are counted in hours.
DayHours == 24
WeekHours == 7 * 24
Now == 3 * WeekHours
Ages == {1, DayHours, DayHours + 1, WeekHours, WeekHours + 1}
TimeStamps == {Now - a : a \in Ages}

\* ------------------------------------------------- checkDatabaseAnomaly
\* The inputs of one call: what the driver and the ledger answer.
\*   conn    GetDatabaseDriver: "ok" or "err"
\*   dump    driver.Dump: "ok", "NotFound", "err" or "panic"
\*   schema  the dumped text
\*   history driver.FindMigrationHistoryList: [err, list], list holding at
\*           most one record (Limit = 1)
\*   w1, w2  whether the first and the second ledger write succeed
HistoryRecords == [Version : {"v1"}, Schema : Schemas]
NoHistory == [err |-> FALSE, list |-> <<>>]
DbIn(conn, dump, schema, history, w1, w2) ==
    [conn |-> conn, dump |-> dump, schema |-> schema, history |-> history,
     w1 |-> w1, w2 |-> w2]
\* Every input a call can consume; what a call never reads ("none", no
\* history, w2 when there is no second write) is left at one value.
DatabaseInputs ==
    {DbIn("err", "none", "none", NoHistory, w1, TRUE) : w1 \in BOOLEAN}
    \cup {DbIn("ok", dump, "none", NoHistory, w1, TRUE) :
            dump \in {"NotFound", "err", "panic"}, w1 \in BOOLEAN}
    \cup {DbIn("ok", "ok", "schemaA", [err |-> e, list |-> <<>>], w1, TRUE) :
            e \in BOOLEAN, w1 \in BOOLEAN}
    \cup {DbIn("ok", "ok", s, [err |-> FALSE, list |-> <<h>>], w1, w2) :
            s \in Schemas, h \in HistoryRecords, w1 \in BOOLEAN, w2 \in BOOLEAN}


\* The connection attempt failed: upsert the connection anomaly, then return.
ConnectionFailedInsert(l, d, in) ==
    [ledger |-> IF in.w1 THEN [l EXCEPT ![d][AnomalyDatabaseConnection] = @ + 1] ELSE l,
     ops |-> << [op |-> "upsert", type |-> AnomalyDatabaseConnection,
                 payload |-> [Detail |-> "connect error"],
                 err |-> IF in.w1 THEN "nil" ELSE "Internal"] >>,
     errors |-> IF in.w1 THEN 0 ELSE 1]

ConnectionFailed(l, d, in) ==
    LET u == UpsertActiveAnomaly(l, d, AnomalyDatabaseConnection, in.w1)
    IN [ledger |-> u.ledger,
        ops |-> << [op |-> "upsert", type |-> AnomalyDatabaseConnection,
                    payload |-> [Detail |-> "connect error"],
                    err |-> u.err] >>,
        errors |-> UpsertLogged(u.err)]

\* The connection attempt succeeded: archive the connection anomaly.
ConnectionSucceededNoArchive(l, d, in) ==
    [ledger |-> l, ops |-> <<>>, errors |-> 0]

ConnectionSucceeded(l, d, in) ==
    LET a == ArchiveAnomaly(l, d, AnomalyDatabaseConnection, in.w1)
    IN [ledger |-> a.ledger,
        ops |-> << [op |-> "archive", type |-> AnomalyDatabaseConnection,
                    err |-> a.err] >>,
        errors |-> ArchiveLogged(a.err)]

DriftFoundOnEveryDatabase(l, d, in) ==
    LET u == UpsertActiveAnomaly(l, d, AnomalyDatabaseSchemaDrift, in.w2)
    IN [ledger |-> [o \in Databases |->
                       [u.ledger[o] EXCEPT ![AnomalyDatabaseSchemaDrift] =
                            IF in.w2 THEN 1 ELSE @]],
        ops |-> << [op |-> "upsert", type |-> AnomalyDatabaseSchemaDrift,
                    payload |-> [Version |-> in.history.list[1].Version,
                                 Expect |-> in.history.list[1].Schema,
                                 Actual |-> in.schema],
                    err |-> u.err] >>,
        errors |-> UpsertLogged(u.err)]

\* list[0].Schema != schemaBuf.String(): upsert the drift anomaly.
DriftFound(l, d, in) ==
    LET u == UpsertActiveAnomaly(l, d, AnomalyDatabaseSchemaDrift, in.w2)
    IN [ledger |-> u.ledger,
        ops |-> << [op |-> "upsert", type |-> AnomalyDatabaseSchemaDrift,
                    payload |-> [Version |-> in.history.list[1].Version,
                                 Expect |-> in.history.list[1].Schema,
                                 Actual |-> in.schema],
                    err |-> u.err] >>,
        errors |-> UpsertLogged(u.err)]

\* list[0].Schema == schemaBuf.String(): the archive request names
\* api.AnomalyDatabaseConnection.
DriftCleared(l, d, in) ==
    LET a == ArchiveAnomaly(l, d, AnomalyDatabaseConnection, in.w2)
    IN [ledger |-> a.ledger,
        ops |-> << [op |-> "archive", type |-> AnomalyDatabaseConnection,
                    err |-> a.err] >>,
        errors |-> ArchiveLogged(a.err)]

\* The schema drift block, entered with an open driver.
CheckSchemaDriftFailClosed(l, d, in) ==
    LET u == UpsertActiveAnomaly(l, d, AnomalyDatabaseSchemaDrift, in.w2)
    IN [ledger |-> u.ledger,
        ops |-> << [op |-> "upsert", type |-> AnomalyDatabaseSchemaDrift,
                    payload |-> [Detail |-> "no evidence"], err |-> u.err] >>,
        errors |-> UpsertLogged(u.err), panic |-> FALSE,
        dumped |-> TRUE, historyRead |-> FALSE]

CheckSchemaDrift(l, d, in) ==
    IF in.dump = "panic" THEN
        [ledger |-> l, ops |-> <<>>, errors |-> 0, panic |-> TRUE,
         dumped |-> TRUE, historyRead |-> FALSE]
    ELSE IF in.dump /= "ok" THEN
        [ledger |-> l, ops |-> <<>>,
         errors |-> IF in.dump = "NotFound" THEN 0 ELSE 1, panic |-> FALSE,
         dumped |-> TRUE, historyRead |-> FALSE]
    ELSE IF in.history.err THEN
        [ledger |-> l, ops |-> <<>>, errors |-> 1, panic |-> FALSE,
         dumped |-> TRUE, historyRead |-> TRUE]
    ELSE IF Len(in.history.list) > 0 THEN
        LET r == IF in.history.list[1].Schema /= in.schema
                 THEN DriftFound(l, d, in) ELSE DriftCleared(l, d, in)
        IN [ledger |-> r.ledger, ops |-> r.ops, errors |-> r.errors,
            panic |-> FALSE, dumped |-> TRUE, historyRead |-> TRUE]
    ELSE
        [ledger |-> l, ops |-> <<>>, errors |-> 0, panic |-> FALSE,
         dumped |-> TRUE, historyRead |-> TRUE]

\* Whether GetDatabaseDriver returned a driver (err == nil).
DriverOpenedAlways(in) == TRUE
DriverOpened(in) == in.conn = "ok"

\* defer driver.Close(ctx): the number of Close calls made by the time the
\* call is over, s being what the drift block did.
CloseSkippedByPanic(s) == IF s.panic THEN 0 ELSE 1
DeferredClose(s) == 1

\* checkDatabaseAnomaly(ctx, instance, database) on ledger l: the ledger it
\* leaves and the trace of what it did.  closed counts driver.Close calls.
checkDatabaseAnomaly(l, d, in) ==
    IF ~DriverOpened(in) THEN
        LET c == ConnectionFailed(l, d, in)
        IN [ledger |-> c.ledger, panic |-> FALSE,
            trace |-> [connected |-> FALSE, dumped |-> FALSE,
                       historyRead |-> FALSE, closed |-> 0,
                       ops |-> c.ops, errors |-> c.errors]]
    ELSE
        LET c == ConnectionSucceeded(l, d, in)
            s == CheckSchemaDrift(c.ledger, d, in)
        IN [ledger |-> s.ledger, panic |-> s.panic,
            trace |-> [connected |-> TRUE, dumped |-> s.dumped,
                       historyRead |-> s.historyRead, closed |-> DeferredClose(s),
                       ops |-> c.ops \o s.ops, errors |-> c.errors + s.errors]]

\* ----------------------------------------------------- checkBackupAnomaly
\* The inputs of one call.
\*   setting  BackupService.FindBackupSetting: [err, row]; err is "nil",
\*            "NotFound" or "Internal", row the setting when err = "nil"
\*   backups  BackupService.FindBackupList (status Done, most recent first):
\*            [err, list], list the UpdatedTs of the backups
\*   now      time.Now()
\*   w1, w2   whether the first and the second ledger write succeed
UnsetField == -1
BackupSettings ==
    [Enabled : BOOLEAN, Hour : {UnsetField, 2}, DayOfWeek : {UnsetField, 3},
     UpdatedTs : TimeStamps]
NoSetting == [Enabled |-> FALSE, Hour |-> UnsetField, DayOfWeek |-> UnsetField, UpdatedTs |-> 0]
NoBackups == [err |-> FALSE, list |-> <<>>]
BackupResults ==
    {[err |-> TRUE, list |-> <<>>], NoBackups}
        \cup {[err |-> FALSE, list |-> <<ts>>] : ts \in TimeStamps}
BkIn(err, row, backups, w1, w2) ==
    [setting |-> [err |-> err, row |-> row], backups |-> backups, now |-> Now,
     w1 |-> w1, w2 |-> w2]
\* backupMaxAge of a setting row, and whether the row makes the call read
\* the backup list.
BackupMaxAgeOneDay(row) == DayHours
BackupMaxAge(row) == IF row.DayOfWeek = UnsetField THEN DayHours ELSE WeekHours
ReadsBackups(row) == row.Enabled /\ row.UpdatedTs < Now - BackupMaxAge(row)
\* Every input a call can consume; the backup list is left empty where the
\* call does not read it.
BackupInputs ==
    {BkIn("Internal", NoSetting, NoBackups, TRUE, TRUE)}
    \cup {BkIn("NotFound", NoSetting, NoBackups, w1, w2) :
            w1 \in BOOLEAN, w2 \in BOOLEAN}
    \cup {BkIn("nil", row, NoBackups, w1, w2) :
            row \in {r \in BackupSettings : ~ReadsBackups(r)},
            w1 \in BOOLEAN, w2 \in BOOLEAN}
    \cup {BkIn("nil", row, b, w1, w2) :
            row \in {r \in BackupSettings : ReadsBackups(r)},
            b \in BackupResults, w1 \in BOOLEAN, w2 \in BOOLEAN}
\* The inputs the scan loop's calls are given: those whose timestamps are
\* the youngest or the oldest.
CoarseTimeStamps == {0, Now - 1, Now - (WeekHours + 1)}
CoarseBackupInputs ==
    {in \in BackupInputs :
        /\ in.setting.row.UpdatedTs \in CoarseTimeStamps
        /\ \A k \in DOMAIN in.backups.list : in.backups.list[k] \in CoarseTimeStamps}

\* The effective schedule of the setting just looked up.
EffectiveScheduleIgnoringHour(setting) ==
    IF setting.err = "nil" /\ setting.row.Enabled THEN
        IF setting.row.DayOfWeek = UnsetField THEN BackupPlanPolicyScheduleDaily
        ELSE BackupPlanPolicyScheduleWeekly
    ELSE BackupPlanPolicyScheduleUnset

EffectiveSchedule(setting) ==
    IF setting.err /= "nil" THEN BackupPlanPolicyScheduleUnset
    ELSE IF setting.row.Enabled /\ setting.row.Hour /= UnsetField THEN
        IF setting.row.DayOfWeek = UnsetField THEN BackupPlanPolicyScheduleDaily
        ELSE BackupPlanPolicyScheduleWeekly
    ELSE BackupPlanPolicyScheduleUnset

\* Whether the policy's required schedule is violated by the effective one.
PolicyViolatedUnlessEqual(required, schedule) ==
    required /= BackupPlanPolicyScheduleUnset /\ schedule /= required

PolicyViolated(required, schedule) ==
    /\ required /= BackupPlanPolicyScheduleUnset
    /\ \/ required = BackupPlanPolicyScheduleDaily
          /\ schedule /= BackupPlanPolicyScheduleDaily
       \/ required = BackupPlanPolicyScheduleWeekly
          /\ schedule = BackupPlanPolicyScheduleUnset

\* The "Check backup policy violation" block.
CheckBackupPolicyViolation(l, d, environmentId, required, schedule, ok) ==
    IF PolicyViolated(required, schedule) THEN
        LET u == UpsertActiveAnomaly(l, d, AnomalyDatabaseBackupPolicyViolation, ok)
        IN [ledger |-> u.ledger,
            ops |-> << [op |-> "upsert", type |-> AnomalyDatabaseBackupPolicyViolation,
                        payload |-> [EnvironmentId |-> environmentId,
                                     ExpectedBackupSchedule |-> required,
                                     ActualBackupSchedule |-> schedule],
                        err |-> u.err] >>,
            errors |-> UpsertLogged(u.err)]
    ELSE
        LET a == ArchiveAnomaly(l, d, AnomalyDatabaseBackupPolicyViolation, ok)
        IN [ledger |-> a.ledger,
            ops |-> << [op |-> "archive", type |-> AnomalyDatabaseBackupPolicyViolation,
                        err |-> a.err] >>,
            errors |-> ArchiveLogged(a.err)]

\* expectedSchedule of an enabled setting.
ExpectedSchedule(row) ==
    IF row.DayOfWeek = UnsetField THEN BackupPlanPolicyScheduleDaily
    ELSE BackupPlanPolicyScheduleWeekly

\* The payload the "Check backup missing" block builds: "nil" when it builds
\* none.  backupsRead tells whether FindBackupList was called; a failed
\* FindBackupList is logged and leaves backupList empty.
BackupMissingPayload(in) ==
    LET row == in.setting.row
        found == in.setting.err = "nil"
        due == found /\ row.Enabled /\ row.UpdatedTs < in.now - BackupMaxAge(row)
        list == in.backups.list
        hasValidBackup == Len(list) > 0 /\ list[1] >= in.now - BackupMaxAge(row)
    IN [backupsRead |-> due,
        errors |-> IF due /\ in.backups.err THEN 1 ELSE 0,
        payload |->
            IF due /\ ~hasValidBackup THEN
                IF Len(list) > 0
                THEN [ExpectedBackupSchedule |-> ExpectedSchedule(row),
                      LastBackupTs |-> list[1]]
                ELSE [ExpectedBackupSchedule |-> ExpectedSchedule(row)]
            ELSE [nil |-> TRUE]]

CheckBackupMissingEnabledOnly(l, d, in) ==
    LET m == BackupMissingPayload(in)
    IN IF m.payload /= [nil |-> TRUE] THEN
           LET u == UpsertActiveAnomaly(l, d, AnomalyDatabaseBackupMissing, in.w2)
           IN [ledger |-> u.ledger,
               ops |-> << [op |-> "upsert", type |-> AnomalyDatabaseBackupMissing,
                           payload |-> m.payload, err |-> u.err] >>,
               errors |-> m.errors + UpsertLogged(u.err),
               backupsRead |-> m.backupsRead]
       ELSE IF in.setting.err = "nil" /\ in.setting.row.Enabled THEN
           LET a == ArchiveAnomaly(l, d, AnomalyDatabaseBackupMissing, in.w2)
           IN [ledger |-> a.ledger,
               ops |-> << [op |-> "archive", type |-> AnomalyDatabaseBackupMissing,
                           err |-> a.err] >>,
               errors |-> m.errors + ArchiveLogged(a.err),
               backupsRead |-> m.backupsRead]
       ELSE [ledger |-> l, ops |-> <<>>, errors |-> m.errors,
             backupsRead |-> m.backupsRead]

\* The "Check backup missing" block.
CheckBackupMissing(l, d, in) ==
    LET m == BackupMissingPayload(in)
    IN IF m.payload /= [nil |-> TRUE] THEN
           LET u == UpsertActiveAnomaly(l, d, AnomalyDatabaseBackupMissing, in.w2)
           IN [ledger |-> u.ledger,
               ops |-> << [op |-> "upsert", type |-> AnomalyDatabaseBackupMissing,
                           payload |-> m.payload, err |-> u.err] >>,
               errors |-> m.errors + UpsertLogged(u.err),
               backupsRead |-> m.backupsRead]
       ELSE
           LET a == ArchiveAnomaly(l, d, AnomalyDatabaseBackupMissing, in.w2)
           IN [ledger |-> a.ledger,
               ops |-> << [op |-> "archive", type |-> AnomalyDatabaseBackupMissing,
                           err |-> a.err] >>,
               errors |-> m.errors + ArchiveLogged(a.err),
               backupsRead |-> m.backupsRead]

\* checkBackupAnomaly(ctx, instance, database, policyMap) on ledger l.  A
\* policyMap without an entry for the instance's environment is a nil
\* pointer dereference at the first policyMap[...].Schedule: a panic.
checkBackupAnomaly(l, d, environmentId, policyMap, in) ==
    IF in.setting.err = "Internal" THEN
        [ledger |-> l, panic |-> FALSE,
         trace |-> [schedule |-> BackupPlanPolicyScheduleUnset,
                    backupsRead |-> FALSE, ops |-> <<>>, errors |-> 1]]
    ELSE IF environmentId \notin DOMAIN policyMap THEN
        [ledger |-> l, panic |-> TRUE,
         trace |-> [schedule |-> EffectiveSchedule(in.setting),
                    backupsRead |-> FALSE, ops |-> <<>>, errors |-> 0]]
    ELSE
        LET schedule == EffectiveSchedule(in.setting)
            v == CheckBackupPolicyViolation(l, d, environmentId,
                     policyMap[environmentId], schedule, in.w1)
            m == CheckBackupMissing(v.ledger, d, in)
        IN [ledger |-> m.ledger, panic |-> FALSE,
            trace |-> [schedule |-> schedule, backupsRead |-> m.backupsRead,
                       ops |-> v.ops \o m.ops, errors |-> v.errors + m.errors]]

\* ------------------------------------------------------------ the scan loop
\* The environment attached to an instance: the first listed environment
\* with the instance's EnvironmentId, if its row status is Normal.
AttachEnvironmentAnyStatus(list, k, environmentId) ==
    IF \E j \in DOMAIN list : j >= k /\ list[j].ID = environmentId
    THEN environmentId ELSE NIL

RECURSIVE AttachEnvironment(_, _, _)
AttachEnvironment(list, k, environmentId) ==
    IF k > Len(list) THEN NIL
    ELSE IF list[k].ID = environmentId THEN
        IF list[k].RowStatus = Normal THEN list[k].ID ELSE NIL
    ELSE AttachEnvironment(list, k + 1, environmentId)

EmptyLog ==
    [marked |-> {}, ran |-> {}, backupRan |-> {}, wrote |-> {},
     overwrote |-> FALSE, connFailed |-> FALSE, loadFailed |-> FALSE,
     composeFailed |-> {}, dbLoadFailed |-> {}, panicked |-> FALSE]
NoCall == [fn |-> "none"]

\* Whether one of the ledger writes ops, issued for database d on ledger l,
\* was an upsert that found the active row of its key already there.
Overwrites(l, d, ops) ==
    \E k \in DOMAIN ops :
        ops[k].op = "upsert" /\ ops[k].err = "nil" /\ l[d][ops[k].type] >= 1

\* The instance at hand and the database at hand of goroutine t.
Instance(t) == instanceList[t][instIdx[t]]
Database(t) == dbList[t][dbIdx[t]]

\* Where the instance loop goes with index k: the next instance, or the end
\* of the round's body.
InstanceLoop(t, k) == IF k > Len(instanceList[t]) THEN "sleep" ELSE "instance"
\* Where the database loop goes with index k in list.
DatabaseLoop(list, k) == IF k > Len(list) THEN "deferLock" ELSE "checkDatabase"

\* The rows FindEnvironmentList returns (EnvironmentFind{} filters nothing).
EnvironmentRows ==
    LET ids == SortedSeq({e \in Environments : environmentStore[e] /= "NONE"})
    IN [k \in 1..Len(ids) |-> [ID |-> ids[k], RowStatus |-> environmentStore[ids[k]]]]

\* Where a failed topology or policy load sends the round: return.
AfterLoadErrorGoOn(next) == next
AfterLoadError(next) == "sleep"

WorldUnchanged == UNCHANGED <<environmentStore, policyStore, call>>
SharedUnchanged == UNCHANGED <<ledger, runningTasks, mu>>

\* environmentList, err := FindEnvironmentList(...)
FindEnvironmentList(t) ==
    /\ pc[t] = "round"
    /\ \E outcome \in {"ok", "err", "panic"} :
          /\ pc' = [pc EXCEPT ![t] =
                      CASE outcome = "ok" -> "policy"
                        [] outcome = "err" -> AfterLoadError("policy")
                        [] OTHER -> "recover"]
          /\ environmentList' = [environmentList EXCEPT ![t] =
                IF outcome = "ok" THEN EnvironmentRows ELSE @]
          /\ roundLog' = [roundLog EXCEPT ![t].loadFailed = (outcome = "err"),
                                          ![t].panicked = (outcome = "panic")]
    /\ UNCHANGED <<backupPlanPolicyMap, instanceList, instIdx, dbList, dbIdx, panicking>>
    /\ SharedUnchanged /\ WorldUnchanged

\* backupPlanPolicyMap[env.ID] = policy
PolicyMapPutUnderOtherKey(m, id, policy) ==
    [e \in DOMAIN m \cup {id + NumEnvironments} |->
        IF e \in DOMAIN m THEN m[e] ELSE policy]
PolicyMapPut(m, id, policy) ==
    [e \in DOMAIN m \cup {id} |-> IF e \in DOMAIN m THEN m[e] ELSE policy]

\* One iteration of the loop over environmentList: GetBackupPlanPolicy.
GetBackupPlanPolicy(t) ==
    /\ pc[t] = "policy"
    /\ LET k == Cardinality(DOMAIN backupPlanPolicyMap[t]) + 1
       IN IF k > Len(environmentList[t]) THEN
              /\ pc' = [pc EXCEPT ![t] = "instances"]
              /\ UNCHANGED <<backupPlanPolicyMap, roundLog>>
          ELSE
              \E outcome \in {"ok", "err", "panic"} :
                 /\ pc' = [pc EXCEPT ![t] =
                             CASE outcome = "ok" -> "policy"
                               [] outcome = "err" -> AfterLoadError("policy")
                               [] OTHER -> "recover"]
                 /\ backupPlanPolicyMap' = [backupPlanPolicyMap EXCEPT ![t] =
                       IF outcome = "ok"
                       THEN PolicyMapPut(@, environmentList[t][k].ID,
                                         policyStore[environmentList[t][k].ID])
                       ELSE @]
                 /\ roundLog' = [roundLog EXCEPT ![t].loadFailed = (outcome = "err"),
                                                 ![t].panicked = (outcome = "panic")]
    /\ UNCHANGED <<environmentList, instanceList, instIdx, dbList, dbIdx, panicking>>
    /\ SharedUnchanged /\ WorldUnchanged

\* instanceList, err := FindInstanceList(RowStatus = Normal)
FindInstanceList(t) ==
    /\ pc[t] = "instances"
    /\ \E outcome \in {"ok", "err", "panic"} :
          /\ instanceList' = [instanceList EXCEPT ![t] =
                IF outcome = "ok" THEN SortedSeq(Instances) ELSE @]
          /\ instIdx' = [instIdx EXCEPT ![t] = 1]
          /\ pc' = [pc EXCEPT ![t] =
                      CASE outcome = "ok" ->
                             IF Len(SortedSeq(Instances)) = 0 THEN "sleep" ELSE "instance"
                        [] outcome = "err" -> AfterLoadError("instance")
                        [] OTHER -> "recover"]
          /\ roundLog' = [roundLog EXCEPT ![t].loadFailed = (outcome = "err"),
                                          ![t].panicked = (outcome = "panic")]
    /\ UNCHANGED <<environmentList, backupPlanPolicyMap, dbList, dbIdx, panicking>>
    /\ SharedUnchanged /\ WorldUnchanged

\* Lines 80-99 for the instance at hand: attach the environment, compose the
\* admin data source (a failure returns from the round's body), then skip
\* the instance when no environment was attached.
AfterComposeError(t) == "sleep"

ResolveInstance(t) ==
    /\ pc[t] = "instance"
    /\ LET env == AttachEnvironment(environmentList[t], 1, EnvironmentIdOf(Instance(t)))
       IN \E outcome \in {"ok", "err", "panic"} :
             /\ pc' = [pc EXCEPT ![t] =
                         CASE outcome = "err" -> AfterComposeError(t)
                           [] outcome = "panic" -> "recover"
                           [] OTHER -> IF env = NIL
                                       THEN InstanceLoop(t, instIdx[t] + 1)
                                       ELSE "lock"]
             /\ instIdx' = [instIdx EXCEPT ![t] =
                   IF outcome = "ok" /\ env = NIL THEN @ + 1 ELSE @]
             /\ roundLog' = [roundLog EXCEPT
                   ![t].composeFailed = IF outcome = "err" THEN @ \cup {Instance(t)} ELSE @,
                   ![t].panicked = (outcome = "panic")]
    /\ UNCHANGED <<environmentList, backupPlanPolicyMap, instanceList, dbList, dbIdx, panicking>>
    /\ SharedUnchanged /\ WorldUnchanged

\* mu.Lock() before the check of runningTasks.
Lock(t) ==
    /\ pc[t] = "lock"
    /\ mu = 0
    /\ mu' = t
    /\ pc' = [pc EXCEPT ![t] = "locked"]
    /\ UNCHANGED <<ledger, runningTasks, environmentList, backupPlanPolicyMap,
                   instanceList, instIdx, dbList, dbIdx, panicking, roundLog>>
    /\ WorldUnchanged

\* if _, ok := runningTasks[instance.ID]; ok
AlreadyRunningIgnored(t) == FALSE
AlreadyRunning(t) == Instance(t) \in runningTasks

\* The check of runningTasks and the insertion, under the lock.
MarkRunning(t) ==
    /\ pc[t] = "locked"
    /\ IF AlreadyRunning(t) THEN
           /\ pc' = [pc EXCEPT ![t] = "unlockSkip"]
           /\ UNCHANGED <<runningTasks, roundLog>>
       ELSE
           /\ runningTasks' = runningTasks \cup {Instance(t)}
           /\ roundLog' = [roundLog EXCEPT ![t].marked = @ \cup {Instance(t)}]
           /\ pc' = [pc EXCEPT ![t] = "unlockScan"]
    /\ UNCHANGED <<ledger, mu, environmentList, backupPlanPolicyMap,
                   instanceList, instIdx, dbList, dbIdx, panicking>>
    /\ WorldUnchanged

\* The holder of mu after goroutine t's mu.Unlock(): nobody.
MutexUnlockSkipped(t) == t
MutexUnlock(t) == 0

\* mu.Unlock(), followed by continue (the instance is being scanned already)
\* or by the scan of the instance.
Unlock(t) ==
    /\ pc[t] \in {"unlockSkip", "unlockScan"}
    /\ mu' = MutexUnlock(t)
    /\ pc' = [pc EXCEPT ![t] =
                IF pc[t] = "unlockSkip" THEN InstanceLoop(t, instIdx[t] + 1)
                ELSE "databases"]
    /\ instIdx' = [instIdx EXCEPT ![t] = IF pc[t] = "unlockSkip" THEN @ + 1 ELSE @]
    /\ UNCHANGED <<ledger, runningTasks, environmentList, backupPlanPolicyMap,
                   instanceList, dbList, dbIdx, panicking, roundLog>>
    /\ WorldUnchanged

\* The databases FindDatabaseList returns for instance i.
DatabasesOf(i) == SortedSeq({d \in Databases : InstanceIdOf(d) = i})

\* Where a failed FindDatabaseList sends the scan: return, through the
\* deferred release of the scanning mark.
AfterDatabaseListErrorNoRelease(t) == "instance"
AfterDatabaseListError(t) == "deferLock"

\* dbList, err := FindDatabaseList(InstanceId = instance.ID)
FindDatabaseList(t) ==
    /\ pc[t] = "databases"
    /\ \E outcome \in {"ok", "err", "panic"} :
          /\ dbList' = [dbList EXCEPT ![t] =
                IF outcome = "ok" THEN DatabasesOf(Instance(t)) ELSE <<>>]
          /\ dbIdx' = [dbIdx EXCEPT ![t] = 1]
          /\ pc' = [pc EXCEPT ![t] =
                      CASE outcome = "ok" -> DatabaseLoop(DatabasesOf(Instance(t)), 1)
                        [] outcome = "err" -> AfterDatabaseListError(t)
                        [] OTHER -> "deferLock"]
          /\ panicking' = [panicking EXCEPT ![t] = (outcome = "panic")]
          /\ roundLog' = [roundLog EXCEPT
                ![t].dbLoadFailed = IF outcome = "err" THEN @ \cup {Instance(t)} ELSE @,
                ![t].panicked = (outcome = "panic")]
    /\ UNCHANGED <<environmentList, backupPlanPolicyMap, instanceList, instIdx>>
    /\ SharedUnchanged /\ WorldUnchanged

\* Where the loop over dbList goes after checkDatabaseAnomaly returned r:
\* on to checkBackupAnomaly for the same database.
AfterDatabaseCheckConnectedOnly(t, r) ==
    IF r.panic THEN "deferLock"
    ELSE IF r.trace.connected THEN "checkBackup"
    ELSE "checkDatabase"
AfterDatabaseCheck(t, r) == IF r.panic THEN "deferLock" ELSE "checkBackup"

\* s.checkDatabaseAnomaly(ctx, instance, database) in the loop over dbList.
CheckDatabaseAnomaly(t) ==
    /\ pc[t] = "checkDatabase"
    /\ \E in \in DatabaseInputs :
          \E r \in {checkDatabaseAnomaly(ledger, Database(t), in)} :
             /\ ledger' = r.ledger
             /\ pc' = [pc EXCEPT ![t] = AfterDatabaseCheck(t, r)]
             /\ panicking' = [panicking EXCEPT ![t] = r.panic]
             /\ roundLog' = [roundLog EXCEPT
                   ![t].ran = @ \cup {Database(t)},
                   ![t].connFailed = @ \/ ~r.trace.connected,
                   ![t].wrote = IF r.trace.ops /= <<>> THEN @ \cup {Database(t)} ELSE @,
                   ![t].overwrote = @ \/ Overwrites(ledger, Database(t), r.trace.ops),
                   ![t].panicked = r.panic]
    /\ UNCHANGED <<runningTasks, mu, environmentList, backupPlanPolicyMap,
                   instanceList, instIdx, dbList, dbIdx>>
    /\ WorldUnchanged

\* s.checkBackupAnomaly(ctx, instance, database, backupPlanPolicyMap), then
\* the next database of dbList.
CheckBackupAnomaly(t) ==
    /\ pc[t] = "checkBackup"
    /\ \E in \in CoarseBackupInputs :
          \E r \in {checkBackupAnomaly(ledger, Database(t), EnvironmentIdOf(Instance(t)),
                                       backupPlanPolicyMap[t], in)} :
             /\ ledger' = r.ledger
             /\ pc' = [pc EXCEPT ![t] =
                         IF r.panic THEN "deferLock"
                         ELSE DatabaseLoop(dbList[t], dbIdx[t] + 1)]
             /\ dbIdx' = [dbIdx EXCEPT ![t] = IF r.panic THEN @ ELSE @ + 1]
             /\ panicking' = [panicking EXCEPT ![t] = r.panic]
             /\ roundLog' = [roundLog EXCEPT
                   ![t].backupRan = @ \cup {Database(t)},
                   ![t].wrote = IF r.trace.ops /= <<>> THEN @ \cup {Database(t)} ELSE @,
                   ![t].overwrote = @ \/ Overwrites(ledger, Database(t), r.trace.ops),
                   ![t].panicked = r.panic]
    /\ UNCHANGED <<runningTasks, mu, environmentList, backupPlanPolicyMap,
                   instanceList, instIdx, dbList>>
    /\ WorldUnchanged

\* The deferred function of the instance scan: mu.Lock()
DeferLock(t) ==
    /\ pc[t] = "deferLock"
    /\ mu = 0
    /\ mu' = t
    /\ pc' = [pc EXCEPT ![t] = "deferDelete"]
    /\ UNCHANGED <<ledger, runningTasks, environmentList, backupPlanPolicyMap,
                   instanceList, instIdx, dbList, dbIdx, panicking, roundLog>>
    /\ WorldUnchanged

\* delete(runningTasks, instance.ID)
DeleteRunningKept(set, id) == set
DeleteRunning(set, id) == set \ {id}

DeferDelete(t) ==
    /\ pc[t] = "deferDelete"
    /\ runningTasks' = DeleteRunning(runningTasks, Instance(t))
    /\ pc' = [pc EXCEPT ![t] = "deferUnlock"]
    /\ UNCHANGED <<ledger, mu, environmentList, backupPlanPolicyMap,
                   instanceList, instIdx, dbList, dbIdx, panicking, roundLog>>
    /\ WorldUnchanged

\* mu.Unlock() of the deferred function; the scan of the instance is over:
\* the next instance, or, when a panic is unwinding, the round's recover.
DeferUnlock(t) ==
    /\ pc[t] = "deferUnlock"
    /\ mu' = MutexUnlock(t)
    /\ pc' = [pc EXCEPT ![t] =
                IF panicking[t] THEN "recover" ELSE InstanceLoop(t, instIdx[t] + 1)]
    /\ instIdx' = [instIdx EXCEPT ![t] = IF panicking[t] THEN @ ELSE @ + 1]
    /\ UNCHANGED <<ledger, runningTasks, environmentList, backupPlanPolicyMap,
                   instanceList, dbList, dbIdx, panicking, roundLog>>
    /\ WorldUnchanged

\* Where the round's deferred recover() leaves the goroutine: the panic is
\* logged and the round's body returns.
AfterRecoverCrash == "crashed"
AfterRecover == "sleep"

Recover(t) ==
    /\ pc[t] = "recover"
    /\ pc' = [pc EXCEPT ![t] = AfterRecover]
    /\ panicking' = [panicking EXCEPT ![t] = FALSE]
    /\ UNCHANGED <<environmentList, backupPlanPolicyMap, instanceList, instIdx,
                   dbList, dbIdx, roundLog>>
    /\ SharedUnchanged /\ WorldUnchanged

\* time.Sleep(ANOMALY_SCAN_INTERVAL), then the next round with fresh locals.
Sleep(t) ==
    /\ pc[t] = "sleep"
    /\ pc' = [pc EXCEPT ![t] = "round"]
    /\ environmentList' = [environmentList EXCEPT ![t] = <<>>]
    /\ backupPlanPolicyMap' = [backupPlanPolicyMap EXCEPT ![t] = <<>>]
    /\ instanceList' = [instanceList EXCEPT ![t] = <<>>]
    /\ instIdx' = [instIdx EXCEPT ![t] = 1]
    /\ dbList' = [dbList EXCEPT ![t] = <<>>]
    /\ dbIdx' = [dbIdx EXCEPT ![t] = 1]
    /\ roundLog' = [roundLog EXCEPT ![t] = EmptyLog]
    /\ UNCHANGED panicking
    /\ SharedUnchanged /\ WorldUnchanged

\* ------------------------------------------------------------ the program
\* The stores the scanner only reads.  An environment is Normal, Archived
\* or absent ("NONE"); the policy of an environment whose instances are
\* never scanned is never read and is left at UNSET.
Worlds ==
    {w \in [status : [Environments -> {Normal, Archived, "NONE"}],
            policy : [Environments -> Schedules]] :
        \A e \in Environments :
            w.status[e] /= Normal => w.policy[e] = BackupPlanPolicyScheduleUnset}

EmptyLedger == [d \in Databases |-> [ty \in AnomalyTypes |-> 0]]

InitWith(ts, ws, ls) ==
    /\ ledger \in ls
    /\ runningTasks = {}
    /\ mu = 0
    /\ \E w \in ws : environmentStore = w.status /\ policyStore = w.policy
    /\ pc = [t \in Tasks |-> IF t \in ts THEN "round" ELSE "off"]
    /\ environmentList = [t \in Tasks |-> <<>>]
    /\ backupPlanPolicyMap = [t \in Tasks |-> <<>>]
    /\ instanceList = [t \in Tasks |-> <<>>]
    /\ instIdx = [t \in Tasks |-> 1]
    /\ dbList = [t \in Tasks |-> <<>>]
    /\ dbIdx = [t \in Tasks |-> 1]
    /\ panicking = [t \in Tasks |-> FALSE]
    /\ roundLog = [t \in Tasks |-> EmptyLog]
    /\ call = NoCall

\* Run() starts one goroutine.
Init == InitWith({1}, Worlds, {EmptyLedger})

Step(t) ==
    \/ FindEnvironmentList(t)
    \/ GetBackupPlanPolicy(t)
    \/ FindInstanceList(t)
    \/ ResolveInstance(t)
    \/ Lock(t)
    \/ MarkRunning(t)
    \/ Unlock(t)
    \/ FindDatabaseList(t)
    \/ CheckDatabaseAnomaly(t)
    \/ CheckBackupAnomaly(t)
    \/ DeferLock(t)
    \/ DeferDelete(t)
    \/ DeferUnlock(t)
    \/ Recover(t)
    \/ Sleep(t)

Next == \E t \in Tasks : Step(t)

Spec == Init /\ [][Next]_vars

\* Spec with the goroutine's steps weakly fair: the goroutine keeps running,
\* every external call returns or panics, and time.Sleep returns.
FairSpec == Spec /\ \A t \in Tasks : WF_vars(Step(t))

\* The loop body run by every task of Tasks against one runningTasks and one
\* mu: the worker-per-instance arrangement the scanning set is kept for.
\* Environment 1 is Normal with a daily policy, the others are archived.
ConcWorlds ==
    {w \in Worlds :
        /\ w.status[1] = Normal /\ w.policy[1] = BackupPlanPolicyScheduleDaily
        /\ \A e \in Environments \ {1} : w.status[e] = Archived}
InitConc == InitWith(Tasks, ConcWorlds, {EmptyLedger})
SpecConc == InitConc /\ [][Next]_vars

\* ------------------------------------------------- the detectors on their own
\* No goroutine runs.  The ledger starts with at most one active anomaly per
\* (database, type), on at most one database; the one step of a behaviour is
\* one call of a detector on any database with any inputs, and call keeps
\* the call's inputs, the database's ledger rows before it, and its trace.
DetectWorlds ==
    {w \in Worlds : \A e \in Environments :
        w.status[e] = Normal /\ w.policy[e] = BackupPlanPolicyScheduleUnset}
DetectLedgers ==
    {l \in [Databases -> [AnomalyTypes -> {0, 1}]] :
        \E d \in Databases : \A o \in Databases \ {d} : l[o] = EmptyLedger[o]}
InitDetect == InitWith({}, DetectWorlds, DetectLedgers)

SchedulerUnchanged ==
    UNCHANGED <<runningTasks, mu, environmentStore, policyStore, pc,
                environmentList, backupPlanPolicyMap, instanceList, instIdx,
                dbList, dbIdx, panicking, roundLog>>

CallCheckDatabaseAnomaly ==
    /\ \A t \in Tasks : pc[t] = "off"
    /\ call = NoCall
    /\ \E d \in Databases, in \in DatabaseInputs :
          \E r \in {checkDatabaseAnomaly(ledger, d, in)} :
             /\ ledger' = r.ledger
             /\ call' = [fn |-> "checkDatabaseAnomaly", db |-> d, in |-> in,
                         before |-> ledger[d],
                         panic |-> r.panic, trace |-> r.trace]
    /\ SchedulerUnchanged

\* The policy maps a call is given: one schedule for every environment, or
\* no entry at all.
PolicyMaps == {[e \in Environments |-> q] : q \in Schedules} \cup {<<>>}

CallCheckBackupAnomaly ==
    /\ \A t \in Tasks : pc[t] = "off"
    /\ call = NoCall
    /\ \E d \in Databases, policyMap \in PolicyMaps, in \in BackupInputs :
          \E r \in {checkBackupAnomaly(ledger, d, EnvironmentIdOf(InstanceIdOf(d)),
                                       policyMap, in)} :
             /\ ledger' = r.ledger
             /\ call' = [fn |-> "checkBackupAnomaly", db |-> d, in |-> in,
                         before |-> ledger[d],
                         policyMap |-> policyMap,
                         panic |-> r.panic, trace |-> r.trace]
    /\ SchedulerUnchanged

NextDetect == CallCheckDatabaseAnomaly \/ CallCheckBackupAnomaly

SpecDetect == InitDetect /\ [][NextDetect]_vars

\* --------------------------------------------------------- the policy model
PolicyTypePipelineApproval == "bb.policy.pipeline-approval"
PolicyTypeBackupPlan == "bb.policy.backup-plan"
PolicyTypeWindow == "bb.policy.window"
PipelineApprovalValueManualNever == "MANUAL_APPROVAL_NEVER"
PipelineApprovalValueManualAlways == "MANUAL_APPROVAL_ALWAYS"
WindowCronUnset == ""
WindowTypeAllow == 0
WindowTypeDeny == 1
WindowTypeUnknown == 2

\* PolicyTypes[pType]: the map holds the three policy types.
PolicyTypes == {PolicyTypePipelineApproval, PolicyTypeBackupPlan, PolicyTypeWindow}
KnownPolicyTypeAny(pType) == TRUE
KnownPolicyType(pType) == pType \in PolicyTypes

\* A payload text, by what encoding/json makes of it: the empty string, text
\* that is no JSON, the JSON null, a JSON array, or a JSON object given as
\* its members.  A member is a JSON string [str], number [num] or null.
EmptyPayload == [json |-> "empty"]
MalformedPayload == [json |-> "malformed"]
NullPayload == [json |-> "null"]
ArrayPayload == [json |-> "array"]
ObjectPayload(o) == [json |-> "object", object |-> o]
JsonString(s) == [str |-> s]
JsonNumber(n) == [num |-> n]
JsonNull == [null |-> TRUE]

\* json.Unmarshal of one struct field: kind is "str" or "num", zero the
\* field's zero value.  An absent or null member leaves the zero value, a
\* member of the other kind is an UnmarshalTypeError.
UnmarshalField(o, name, kind, zero) ==
    IF name \notin DOMAIN o THEN [err |-> FALSE, v |-> zero]
    ELSE IF "null" \in DOMAIN o[name] THEN [err |-> FALSE, v |-> zero]
    ELSE IF kind \in DOMAIN o[name] THEN [err |-> FALSE, v |-> o[name][kind]]
    ELSE [err |-> TRUE, v |-> zero]

\* Whether json.Unmarshal into a struct fails before looking at a member.
UnmarshalRejects(payload) == payload.json \in {"empty", "malformed", "array"}
Members(payload) == IF payload.json = "object" THEN payload.object ELSE <<>>

UnmarshalPipelineApprovalPolicy(payload) ==
    LET value == UnmarshalField(Members(payload), "value", "str", "")
    IN IF UnmarshalRejects(payload) \/ value.err
       THEN [err |-> TRUE, pa |-> [Value |-> ""]]
       ELSE [err |-> FALSE, pa |-> [Value |-> value.v]]

UnmarshalBackupPlanPolicy(payload) ==
    LET schedule == UnmarshalField(Members(payload), "schedule", "str", "")
    IN IF UnmarshalRejects(payload) \/ schedule.err
       THEN [err |-> TRUE, bp |-> [Schedule |-> ""]]
       ELSE [err |-> FALSE, bp |-> [Schedule |-> schedule.v]]

UnmarshalWindowPolicy(payload) ==
    LET windowType == UnmarshalField(Members(payload), "windowType", "num", 0)
        windowCron == UnmarshalField(Members(payload), "windowCron", "str", "")
    IN IF UnmarshalRejects(payload) \/ windowType.err \/ windowCron.err
       THEN [err |-> TRUE, wp |-> [WindowType |-> 0, WindowCron |-> ""]]
       ELSE [err |-> FALSE,
             wp |-> [WindowType |-> windowType.v, WindowCron |-> windowCron.v]]

\* The cron texts a payload can carry, and the whitespace-separated fields
\* of each.
CronTexts ==
    {"", "* * * * *", "0 2 * * 3", "not-a-cron", "60 * * * *", "* 24 * * *",
     "* * 0 * *", "* * * 13 *", "* * * * 7", "* * * * * *", "* * * *"}
CronFields(text) ==
    CASE text = "" -> <<>>
      [] text = "* * * * *" -> <<"*", "*", "*", "*", "*">>
      [] text = "0 2 * * 3" -> <<"0", "2", "*", "*", "3">>
      [] text = "not-a-cron" -> <<"not-a-cron">>
      [] text = "60 * * * *" -> <<"60", "*", "*", "*", "*">>
      [] text = "* 24 * * *" -> <<"*", "24", "*", "*", "*">>
      [] text = "* * 0 * *" -> <<"*", "*", "0", "*", "*">>
      [] text = "* * * 13 *" -> <<"*", "*", "*", "13", "*">>
      [] text = "* * * * 7" -> <<"*", "*", "*", "*", "7">>
      [] text = "* * * * * *" -> <<"*", "*", "*", "*", "*", "*">>
      [] text = "* * * *" -> <<"*", "*", "*", "*">>
\* The number a field spells, "none" when it spells none.
CronNumber(field) ==
    CASE field = "0" -> [num |-> 0]
      [] field = "2" -> [num |-> 2]
      [] field = "3" -> [num |-> 3]
      [] field = "7" -> [num |-> 7]
      [] field = "13" -> [num |-> 13]
      [] field = "24" -> [num |-> 24]
      [] field = "60" -> [num |-> 60]
      [] OTHER -> [none |-> TRUE]
\* The bounds of the fields minute, hour, day of month, month, day of week.
CronBounds == << <<0, 59>>, <<0, 23>>, <<1, 31>>, <<1, 12>>, <<0, 6>> >>
CronFieldValid(k, field) ==
    \/ field = "*"
    \/ LET n == CronNumber(field)
       IN "num" \in DOMAIN n /\ CronBounds[k][1] <= n.num /\ n.num <= CronBounds[k][2]

\* GetWindowCronParser().Parse(text): whether the text parses under
\* Minute | Hour | Dom | Month | Dow.
ParseCron(text) ==
    LET fields == CronFields(text)
    IN /\ Len(fields) = Len(CronBounds)
       /\ \A k \in DOMAIN fields : CronFieldValid(k, fields[k])

\* ValidatePolicy(pType, payload): "nil" or the error it returns.
ValidatePolicy(pType, payload) ==
    IF ~KnownPolicyType(pType) THEN "invalid policy type"
    ELSE IF payload = EmptyPayload THEN "nil"
    ELSE IF pType = PolicyTypePipelineApproval THEN
        LET u == UnmarshalPipelineApprovalPolicy(payload)
        IN IF u.err THEN "failed to unmarshal pipeline approval policy"
           ELSE IF u.pa.Value /= PipelineApprovalValueManualNever
                   /\ u.pa.Value /= PipelineApprovalValueManualAlways
           THEN "invalid approval policy value"
           ELSE "nil"
    ELSE IF pType = PolicyTypeBackupPlan THEN
        LET u == UnmarshalBackupPlanPolicy(payload)
        IN IF u.err THEN "failed to unmarshal backup plan policy"
           ELSE IF u.bp.Schedule /= BackupPlanPolicyScheduleUnset
                   /\ u.bp.Schedule /= BackupPlanPolicyScheduleDaily
                   /\ u.bp.Schedule /= BackupPlanPolicyScheduleWeekly
           THEN "invalid backup plan policy schedule"
           ELSE "nil"
    ELSE IF pType = PolicyTypeWindow THEN
        LET u == UnmarshalWindowPolicy(payload)
        IN IF u.err THEN "failed to unmarshal window policy"
           ELSE IF ~ParseCron(u.wp.WindowCron) THEN "cron parse error"
           ELSE "nil"
    ELSE "nil"

\* json.Marshal of a PipelineApprovalPolicy, BackupPlanPolicy, WindowPolicy.
MarshalPipelineApprovalPolicy(pa) == ObjectPayload([value |-> JsonString(pa.Value)])
MarshalBackupPlanPolicy(bp) == ObjectPayload([schedule |-> JsonString(bp.Schedule)])
MarshalWindowPolicy(wp) ==
    ObjectPayload([windowType |-> JsonNumber(wp.WindowType),
                   windowCron |-> JsonString(wp.WindowCron)])

\* GetDefaultPolicy(pType): the payload it returns (its error is always nil).
GetDefaultPolicy(pType) ==
    IF pType = PolicyTypePipelineApproval THEN
        MarshalPipelineApprovalPolicy([Value |-> PipelineApprovalValueManualAlways])
    ELSE IF pType = PolicyTypeBackupPlan THEN
        MarshalBackupPlanPolicy([Schedule |-> BackupPlanPolicyScheduleUnset])
    ELSE IF pType = PolicyTypeWindow THEN
        MarshalWindowPolicy([WindowType |-> WindowTypeUnknown,
                             WindowCron |-> WindowCronUnset])
    ELSE EmptyPayload

\* The policy types and payloads ValidatePolicy is called with.
PolicyTypeInputs == PolicyTypes \cup {"", "bb.policy.unknown"}
ApprovalObjects ==
    {[value |-> JsonString(s)] :
        s \in {PipelineApprovalValueManualNever, PipelineApprovalValueManualAlways,
               "MANUAL_APPROVAL_SOMETIMES", ""}}
    \cup {[value |-> JsonNumber(1)], [value |-> JsonNull]}
BackupPlanObjects ==
    {[schedule |-> JsonString(s)] : s \in Schedules \cup {"MONTHLY", ""}}
    \cup {[schedule |-> JsonNumber(1)]}
WindowTypeMembers ==
    {JsonNumber(n) : n \in {WindowTypeAllow, WindowTypeDeny, WindowTypeUnknown, 7}}
    \cup {JsonString("Allow")}
WindowCronMembers == {JsonString(s) : s \in CronTexts} \cup {JsonNumber(5)}
WindowObjects ==
    {[windowType |-> ty, windowCron |-> c] :
        ty \in WindowTypeMembers, c \in WindowCronMembers}
    \cup {[windowCron |-> c] : c \in WindowCronMembers}
    \cup {[windowType |-> ty] : ty \in WindowTypeMembers}
PayloadInputs ==
    {EmptyPayload, MalformedPayload, NullPayload, ArrayPayload, ObjectPayload(<<>>)}
    \cup {ObjectPayload(o) :
            o \in ApprovalObjects \cup BackupPlanObjects \cup WindowObjects}

\* One call of ValidatePolicy on any type and payload; call keeps the
\* arguments and the result.
CallValidatePolicy ==
    /\ \A t \in Tasks : pc[t] = "off"
    /\ \E pType \in PolicyTypeInputs, payload \in PayloadInputs :
          call' = [fn |-> "ValidatePolicy", pType |-> pType, payload |-> payload,
                   err |-> ValidatePolicy(pType, payload)]
    /\ UNCHANGED ledger
    /\ SchedulerUnchanged

\* One call of GetDefaultPolicy on any type, followed by ValidatePolicy on
\* the payload it returned; call keeps the type, the payload and the error
\* of the validation.
CallGetDefaultPolicy ==
    /\ \A t \in Tasks : pc[t] = "off"
    /\ \E pType \in PolicyTypeInputs :
          call' = [fn |-> "GetDefaultPolicy", pType |-> pType,
                   payload |-> GetDefaultPolicy(pType),
                   err |-> ValidatePolicy(pType, GetDefaultPolicy(pType))]
    /\ UNCHANGED ledger
    /\ SchedulerUnchanged

InitPolicy == InitWith({}, DetectWorlds, {EmptyLedger})
NextPolicy == CallValidatePolicy \/ CallGetDefaultPolicy
SpecPolicy == InitPolicy /\ [][NextPolicy]_vars

\* ------------------------------------------------------------- properties
\* The positions at which a goroutine holds the scanning mark of its
\* instance: from the insertion into runningTasks to the deferred delete.
HoldingPcs ==
    {"unlockScan", "databases", "checkDatabase", "checkBackup", "deferLock",
     "deferDelete"}
Holders(i) == {t \in Tasks : pc[t] \in HoldingPcs /\ Instance(t) = i}

\* Whether instance i is eligible for scanning: its environment exists and
\* is in Normal row status.
Eligible(i) == environmentStore[EnvironmentIdOf(i)] = Normal

C2_DriftSelfHeals ==
    ( /\ call.fn = "checkDatabaseAnomaly"
      /\ call.in.conn = "ok" /\ call.in.dump = "ok"
      /\ Len(call.in.history.list) > 0
      /\ ~call.in.history.err
      /\ call.in.history.list[1].Schema = call.in.schema
      /\ call.in.w1 /\ call.in.w2 )
    => ledger[call.db][AnomalyDatabaseSchemaDrift] = 0

\* C3 (SpecDetect): a call of checkDatabaseAnomaly whose connection attempt
\* fails dumps no schema, reads no migration history, and leaves the active
\* state of the database's DatabaseSchemaDrift anomaly as it was.
C3_ConnectivityGatesDrift ==
    (call.fn = "checkDatabaseAnomaly" /\ call.in.conn = "err")
    => /\ ~call.trace.connected
       /\ ~call.trace.dumped
       /\ ~call.trace.historyRead
       /\ \A k \in DOMAIN call.trace.ops :
             call.trace.ops[k].type /= AnomalyDatabaseSchemaDrift
       /\ ledger[call.db][AnomalyDatabaseSchemaDrift]
             = call.before[AnomalyDatabaseSchemaDrift]

\* A failed connection on a database whose drift anomaly is active.
C3_Witness ==
    /\ call.fn = "checkDatabaseAnomaly"
    /\ call.in.conn = "err"
    /\ call.before[AnomalyDatabaseSchemaDrift] = 1
    /\ ledger[call.db][AnomalyDatabaseSchemaDrift] = 1

\* C4 (SpecDetect): after a call of checkDatabaseAnomaly whose connectivity
\* write succeeds, the database has an active DatabaseConnection anomaly
\* exactly if the connection attempt failed; so a success that follows a
\* success leaves none, and its archive answering NotFound logs no error.
C4_ConnectivityReconciled ==
    (call.fn = "checkDatabaseAnomaly" /\ call.in.w1)
    => /\ ledger[call.db][AnomalyDatabaseConnection] = 1 <=> call.in.conn = "err"
       /\ (call.in.conn = "ok" /\ call.before[AnomalyDatabaseConnection] = 0)
             => /\ Len(call.trace.ops) > 0
                /\ call.trace.ops[1] = [op |-> "archive",
                                        type |-> AnomalyDatabaseConnection,
                                        err |-> "NotFound"]
                /\ ( /\ call.in.dump \in {"ok", "NotFound"}
                     /\ ~call.in.history.err
                     /\ call.in.w2 ) => call.trace.errors = 0

\* A successful connection on a database without an active connection
\* anomaly (the state a previous success leaves): the archive finds nothing.
C4_Witness ==
    /\ call.fn = "checkDatabaseAnomaly"
    /\ call.in.conn = "ok" /\ call.in.w1
    /\ call.before[AnomalyDatabaseConnection] = 0
    /\ call.trace.ops[1].err = "NotFound"
    /\ call.trace.errors = 0
    /\ ledger[call.db][AnomalyDatabaseConnection] = 0

\* C5 (SpecConc): with the loop body run concurrently against one scanning
\* set, at most one scan of an instance is in progress in every reachable
\* state; an attempt that finds the instance in the set moves on to the next
\* instance of its list, logs no failure, and does not come back to the
\* instance in the same round.
C5_ExclusiveScan ==
    \A i \in Instances : Cardinality(Holders(i)) <= 1
C5_SkipMovesOn ==
    \A t \in Tasks :
        /\ (pc[t] = "locked" /\ pc'[t] = "unlockSkip")
              => /\ Instance(t) \in runningTasks
                 /\ runningTasks' = runningTasks
                 /\ roundLog'[t] = roundLog[t]
        /\ (pc[t] = "unlockSkip" /\ pc'[t] /= "unlockSkip")
              => /\ instIdx'[t] = instIdx[t] + 1
                 /\ pc'[t] = InstanceLoop(t, instIdx[t] + 1)
                 /\ roundLog'[t] = roundLog[t]
                 /\ Instance(t) \notin roundLog[t].marked
        /\ pc[t] \notin {"sleep", "off"} => instIdx'[t] >= instIdx[t]
C5_ScanExclusivity == []C5_ExclusiveScan /\ [][C5_SkipMovesOn]_vars

\* One attempt skips an instance that another one is scanning.
C5_Witness ==
    \E t \in Tasks, u \in Tasks :
        /\ t /= u
        /\ pc[t] = "unlockSkip"
        /\ u \in Holders(Instance(t))

\* C6 (Spec): the scanning set holds exactly the instances whose scan is in
\* progress: an id put into it is out of it once the scan of the instance
\* has ended, be it by completion, by a failed database listing or by a
\* panic in a detector, so no later round finds the instance marked.
C6_MarkReleased ==
    /\ runningTasks = {i \in Instances : Holders(i) /= {}}
    /\ \A t \in Tasks : pc[t] = "locked" => Instance(t) \notin runningTasks

\* A panic inside the scan of an instance has unwound to the round's
\* recover, and the set is empty.
C6_Witness ==
    /\ pc[1] = "recover"
    /\ panicking[1]
    /\ roundLog[1].marked /= {}
    /\ runningTasks = {}

\* C7 (Spec): at the end of a round in which no load failed and nothing
\* panicked, every eligible instance whose own admin data source was
\* resolved has been scanned, whatever happened to the other instances.
C7_FailureIsolated ==
    \A t \in Tasks :
        (pc[t] = "sleep" /\ ~roundLog[t].loadFailed /\ ~roundLog[t].panicked)
        => \A i \in Instances :
              (Eligible(i) /\ i \notin roundLog[t].composeFailed)
              => i \in roundLog[t].marked

\* C8 (Spec): a round in which loading the environments, a backup plan
\* policy or the instances failed marks no instance, runs no detector and
\* issues no ledger write; the goroutine is at the sleep, and its next step
\* starts the next round.
C8_AbortedRound ==
    \A t \in Tasks :
        roundLog[t].loadFailed
        => /\ pc[t] = "sleep"
           /\ roundLog[t].marked = {}
           /\ roundLog[t].ran = {} /\ roundLog[t].backupRan = {}
           /\ roundLog[t].wrote = {}
           /\ runningTasks = {}
C8_NextRound ==
    \A t \in Tasks :
        (roundLog[t].loadFailed /\ pc'[t] /= pc[t])
        => pc'[t] = "round" /\ ledger' = ledger
C8_LoadFailureAbortsRound == []C8_AbortedRound /\ [][C8_NextRound]_vars

\* The listing of the instances failed after the policies were loaded.
C8_Witness ==
    /\ roundLog[1].loadFailed
    /\ pc[1] = "sleep"
    /\ DOMAIN backupPlanPolicyMap[1] /= {}
    /\ ledger /= EmptyLedger

\* C9 (Spec): an instance whose environment is archived or absent is never
\* marked as scanning, has no detector run on a database of its, and has no
\* anomaly written for a database of its.
C9_ArchivedNeverScanned ==
    \A i \in Instances :
        ~Eligible(i)
        => /\ i \notin runningTasks
           /\ \A t \in Tasks :
                 /\ i \notin roundLog[t].marked
                 /\ pc[t] \in HoldingPcs => Instance(t) /= i
                 /\ \A d \in Databases :
                       InstanceIdOf(d) = i
                       => /\ d \notin roundLog[t].ran
                          /\ d \notin roundLog[t].backupRan
                          /\ d \notin roundLog[t].wrote
           /\ \A d \in Databases : InstanceIdOf(d) = i => ledger[d] = EmptyLedger[d]

\* A finished round that scanned an instance of a Normal environment and
\* passed over an instance of an archived one.
C9_Witness ==
    /\ pc[1] = "sleep"
    /\ \E i \in Instances, j \in Instances :
          /\ environmentStore[EnvironmentIdOf(i)] = Archived
          /\ i \notin roundLog[1].marked
          /\ j \in roundLog[1].marked
          /\ i < j

\* C10 (FairSpec): with every call returning or panicking and every sleep
\* ending, the goroutine starts a new round again and again, whatever the
\* rounds before it did: there is no state it stays in for ever.
C10_NeverTerminates == []<>(pc[1] = "round") /\ []<>(pc[1] = "sleep")

\* A round that panicked has been recovered and is at its sleep, with
\* anomalies in the ledger.
C10_Witness ==
    /\ pc[1] = "sleep"
    /\ roundLog[1].panicked
    /\ ledger /= EmptyLedger

\* The schedule the policy map of the last checkBackupAnomaly call requires
\* for the call's database.
RequiredSchedule == call.policyMap[EnvironmentIdOf(InstanceIdOf(call.db))]

\* A call of checkBackupAnomaly that got past the setting lookup with a
\* policy for the database's environment.
BackupChecked ==
    /\ call.fn = "checkBackupAnomaly"
    /\ call.in.setting.err /= "Internal"
    /\ call.policyMap /= <<>>

\* C11 (SpecDetect): the backup check treats the database as violating
\* exactly when the required schedule is Daily and the effective one is not
\* Daily, or the required one is Weekly and the effective one is Unset; on
\* violation it upserts a DatabaseBackupPolicyViolation anomaly naming the
\* environment and both schedules, otherwise it archives the active one, so
\* that after a successful write the anomaly is active exactly on violation.
C11_ViolationMatrix ==
    BackupChecked
    => LET required == RequiredSchedule
           effective == call.trace.schedule
           violating ==
               \/ required = BackupPlanPolicyScheduleDaily
                  /\ effective /= BackupPlanPolicyScheduleDaily
               \/ required = BackupPlanPolicyScheduleWeekly
                  /\ effective = BackupPlanPolicyScheduleUnset
           first == call.trace.ops[1]
       IN /\ Len(call.trace.ops) >= 1
          /\ first.type = AnomalyDatabaseBackupPolicyViolation
          /\ first.op = IF violating THEN "upsert" ELSE "archive"
          /\ violating
                => first.payload =
                      [EnvironmentId |-> EnvironmentIdOf(InstanceIdOf(call.db)),
                       ExpectedBackupSchedule |-> required,
                       ActualBackupSchedule |-> effective]
          /\ required = BackupPlanPolicyScheduleUnset => first.op = "archive"
          /\ call.in.w1
                => ledger[call.db][AnomalyDatabaseBackupPolicyViolation]
                      = IF violating THEN 1 ELSE 0

\* A weekly requirement met by a daily schedule archives the violation that
\* was active.
C11_Witness ==
    /\ BackupChecked
    /\ RequiredSchedule = BackupPlanPolicyScheduleWeekly
    /\ call.trace.schedule = BackupPlanPolicyScheduleDaily
    /\ call.before[AnomalyDatabaseBackupPolicyViolation] = 1
    /\ ledger[call.db][AnomalyDatabaseBackupPolicyViolation] = 0

\* C12 (SpecDetect): the effective schedule of a setting is Daily when it
\* is enabled with an hour and no day of week, Weekly when it is enabled
\* with an hour and a day of week, and Unset when it is disabled, has no
\* hour, or does not exist; a lookup answering NotFound logs nothing and the
\* violation check goes ahead with Unset.
C12_EffectiveSchedule ==
    (call.fn = "checkBackupAnomaly" /\ call.in.setting.err /= "Internal")
    => LET row == call.in.setting.row
           exists == call.in.setting.err = "nil"
       IN /\ call.trace.schedule =
                IF exists /\ row.Enabled /\ row.Hour /= -1 /\ row.DayOfWeek = -1
                THEN BackupPlanPolicyScheduleDaily
                ELSE IF exists /\ row.Enabled /\ row.Hour /= -1 /\ row.DayOfWeek /= -1
                THEN BackupPlanPolicyScheduleWeekly
                ELSE BackupPlanPolicyScheduleUnset
          /\ (call.in.setting.err = "NotFound" /\ call.policyMap /= <<>>)
                => /\ ~call.panic
                   /\ Len(call.trace.ops) >= 1
                   /\ call.trace.ops[1].type = AnomalyDatabaseBackupPolicyViolation
                   /\ (call.in.w1 /\ call.in.w2) => call.trace.errors = 0

\* A database without a backup setting under a daily requirement: the
\* schedule is Unset and the violation is raised.
C12_Witness ==
    /\ BackupChecked
    /\ call.in.setting.err = "NotFound"
    /\ call.trace.schedule = BackupPlanPolicyScheduleUnset
    /\ RequiredSchedule = BackupPlanPolicyScheduleDaily
    /\ call.trace.ops[1].op = "upsert"
    /\ call.trace.errors = 0

\* The setting of the last checkBackupAnomaly call is enabled and was
\* updated more recently than now minus its maximum backup age.
InGracePeriod ==
    /\ BackupChecked
    /\ call.in.setting.err = "nil"
    /\ call.in.setting.row.Enabled
    /\ call.in.setting.row.UpdatedTs >
          call.in.now - (IF call.in.setting.row.DayOfWeek = -1 THEN 24 ELSE 7 * 24)

\* C13 (SpecDetect): a backup check on an enabled setting that is still in
\* its grace period reads no backups and leaves the active state of the
\* database's DatabaseBackupMissing anomaly as it was before the check.
C13_GracePeriodFrame ==
    InGracePeriod
    => /\ ~call.trace.backupsRead
       /\ ledger[call.db][AnomalyDatabaseBackupMissing]
             = call.before[AnomalyDatabaseBackupMissing]

\* The setting of the last checkBackupAnomaly call is enabled and older than
\* its grace period, and the backups of the database were listed.
PastGracePeriod ==
    /\ BackupChecked
    /\ call.in.setting.err = "nil"
    /\ call.in.setting.row.Enabled
    /\ call.in.setting.row.UpdatedTs <
          call.in.now - (IF call.in.setting.row.DayOfWeek = -1 THEN 24 ELSE 7 * 24)
    /\ ~call.in.backups.err

\* C14 (SpecDetect): past the grace period the backups are read, and a
\* valid backup exists exactly if the most recent backup exists and is not
\* older than 24 hours (no day of week) or 7 x 24 hours; without a valid
\* backup the check upserts a DatabaseBackupMissing anomaly whose payload
\* names the expected schedule and, only if some backup exists, the time of
\* the last one; with a valid backup it archives the active anomaly.
C14_BackupMissingRule ==
    PastGracePeriod
    => LET row == call.in.setting.row
           list == call.in.backups.list
           maxAge == IF row.DayOfWeek = -1 THEN 24 ELSE 7 * 24
           expected == IF row.DayOfWeek = -1 THEN BackupPlanPolicyScheduleDaily
                       ELSE BackupPlanPolicyScheduleWeekly
           valid == Len(list) > 0 /\ list[1] >= call.in.now - maxAge
           last == call.trace.ops[Len(call.trace.ops)]
       IN /\ call.trace.backupsRead
          /\ Len(call.trace.ops) = 2
          /\ last.type = AnomalyDatabaseBackupMissing
          /\ last.op = IF valid THEN "archive" ELSE "upsert"
          /\ (~valid /\ Len(list) > 0)
                => last.payload = [ExpectedBackupSchedule |-> expected,
                                   LastBackupTs |-> list[1]]
          /\ (~valid /\ Len(list) = 0)
                => last.payload = [ExpectedBackupSchedule |-> expected]
          /\ call.in.w2
                => ledger[call.db][AnomalyDatabaseBackupMissing]
                      = IF valid THEN 0 ELSE 1

\* A weekly setting whose last backup is older than a week: the anomaly is
\* raised with the time of that backup.
C14_Witness ==
    /\ PastGracePeriod
    /\ call.in.setting.row.DayOfWeek /= -1
    /\ Len(call.in.backups.list) > 0
    /\ call.before[AnomalyDatabaseBackupMissing] = 0
    /\ ledger[call.db][AnomalyDatabaseBackupMissing] = 1
    /\ call.trace.ops[2].payload.LastBackupTs = call.in.backups.list[1]

\* The last call was a checkDatabaseAnomaly that connected and then found
\* nothing to compare: the dump failed, the history read failed, or there
\* is no history record.
NoDriftEvidence ==
    /\ call.fn = "checkDatabaseAnomaly"
    /\ call.in.conn = "ok"
    /\ \/ call.in.dump \in {"NotFound", "err"}
       \/ call.in.dump = "ok" /\ call.in.history.err
       \/ call.in.dump = "ok" /\ ~call.in.history.err
          /\ Len(call.in.history.list) = 0

\* C17 (SpecDetect): after a successful connection, a failed dump, a failed
\* history read or an empty history makes the drift step issue no ledger
\* write: the only write of the call is the connectivity archive, and the
\* active state of the database's DatabaseSchemaDrift anomaly is unchanged.
C17_DriftFailOpen ==
    NoDriftEvidence
    => /\ ~call.panic
       /\ Len(call.trace.ops) = 1
       /\ call.trace.ops[1].op = "archive"
       /\ call.trace.ops[1].type = AnomalyDatabaseConnection
       /\ ledger[call.db][AnomalyDatabaseSchemaDrift]
             = call.before[AnomalyDatabaseSchemaDrift]
       /\ call.trace.closed = 1

\* The history read fails on a database whose drift anomaly is active, and
\* the anomaly stays.
C17_Witness ==
    /\ NoDriftEvidence
    /\ call.in.dump = "ok" /\ call.in.history.err
    /\ call.trace.historyRead
    /\ call.before[AnomalyDatabaseSchemaDrift] = 1
    /\ ledger[call.db][AnomalyDatabaseSchemaDrift] = 1

\* C18 (SpecDetect): a backup check whose setting lookup fails with an
\* error other than NotFound writes neither the DatabaseBackupPolicyViolation
\* nor the DatabaseBackupMissing anomaly, and a check whose listing of the
\* database's backups fails writes no DatabaseBackupMissing anomaly.
C18_LookupFailureFrame ==
    call.fn = "checkBackupAnomaly"
    => /\ call.in.setting.err = "Internal"
             => /\ call.trace.ops = <<>>
                /\ ledger[call.db] = call.before
       /\ (call.trace.backupsRead /\ call.in.backups.err)
             => /\ \A k \in DOMAIN call.trace.ops :
                      call.trace.ops[k].type /= AnomalyDatabaseBackupMissing
                /\ ledger[call.db][AnomalyDatabaseBackupMissing]
                      = call.before[AnomalyDatabaseBackupMissing]

\* C15 (SpecPolicy): ValidatePolicy fails for every policy type other than
\* the approval, backup plan and window types, whatever the payload, the
\* empty one included; for those three types the empty payload validates.
C15_TypeAndEmptyPayload ==
    call.fn = "ValidatePolicy"
    => LET known == call.pType \in {"bb.policy.pipeline-approval",
                                    "bb.policy.backup-plan", "bb.policy.window"}
       IN /\ ~known => call.err = "invalid policy type"
          /\ (known /\ call.payload = EmptyPayload) => call.err = "nil"

\* An unknown type is rejected with the empty payload.
C15_Witness ==
    /\ call.fn = "ValidatePolicy"
    /\ call.pType = "bb.policy.unknown"
    /\ call.payload = EmptyPayload
    /\ call.err /= "nil"

\* C16 (SpecPolicy): a non-empty payload validates only if it deserializes
\* into the shape of its type and every field lies in its domain: the
\* approval value is ManualNever or ManualAlways, the backup plan schedule
\* is Unset, Daily or Weekly, the window type is Allow, Deny or Unknown and
\* the window cron parses under the 5-field grammar; "* * * * *" parses and
\* "not-a-cron" is rejected with an error.
C16_EnumAndGrammar ==
    /\ ParseCron("* * * * *")
    /\ ~ParseCron("not-a-cron")
    /\ ( /\ call.fn = "ValidatePolicy"
         /\ call.pType \in PolicyTypes
         /\ call.payload /= EmptyPayload
         /\ call.err = "nil" )
       => CASE call.pType = PolicyTypePipelineApproval ->
                 LET u == UnmarshalPipelineApprovalPolicy(call.payload)
                 IN /\ ~u.err
                    /\ u.pa.Value \in {PipelineApprovalValueManualNever,
                                       PipelineApprovalValueManualAlways}
            [] call.pType = PolicyTypeBackupPlan ->
                 LET u == UnmarshalBackupPlanPolicy(call.payload)
                 IN /\ ~u.err
                    /\ u.bp.Schedule \in Schedules
            [] call.pType = PolicyTypeWindow ->
                 LET u == UnmarshalWindowPolicy(call.payload)
                 IN /\ ~u.err
                    /\ u.wp.WindowType \in {WindowTypeAllow, WindowTypeDeny,
                                            WindowTypeUnknown}
                    /\ ParseCron(u.wp.WindowCron)

\* The positions at which a goroutine is about to make, or is making, a
\* call that can block: a load of the topology or of a policy, the
\* resolution of the admin data source, the database listing, and the two
\* detectors with their driver, backup and ledger calls.
BlockingPcs ==
    {"round", "policy", "instances", "instance", "databases", "checkDatabase",
     "checkBackup"}
\* The positions between a mu.Lock() and the mu.Unlock() that follows it.
LockedPcs == {"locked", "unlockSkip", "unlockScan", "deferDelete", "deferUnlock"}

\* C19 (SpecConc): no goroutine holds the mutex of the scanning set while
\* one of its blocking calls is in progress; a goroutine holds it exactly
\* from its Lock to its Unlock around the check-and-insert and around the
\* delete.
C19_NoLockAcrossIO ==
    /\ \A t \in Tasks : pc[t] \in BlockingPcs => mu /= t
    /\ \A t \in Tasks : mu = t <=> pc[t] \in LockedPcs
    /\ mu \in Tasks \cup {0}

\* One goroutine is inside a detector call while another one holds the
\* mutex for its check-and-insert.
C19_Witness ==
    \E t \in Tasks, u \in Tasks :
        /\ t /= u
        /\ pc[t] = "checkDatabase"
        /\ pc[u] = "locked"
        /\ mu = u

\* C20 (Spec): whatever the driver answers to the call of
\* checkDatabaseAnomaly the goroutine is about to make, the connection
\* attempt and its ledger write come before every drift step, and no drift
\* step is taken without a connection; when the call has returned, be the
\* connection made or failed, the goroutine goes on to checkBackupAnomaly
\* for the same database in the same round.
C20_ConnectivityFirst ==
    \A t \in Tasks :
        pc[t] = "checkDatabase"
        => \A in \in DatabaseInputs :
              LET r == checkDatabaseAnomaly(ledger, Database(t), in)
                  ops == r.trace.ops
              IN /\ Len(ops) >= 1
                 /\ ops[1].type = AnomalyDatabaseConnection
                 /\ ops[1].op = IF in.conn = "ok" THEN "archive" ELSE "upsert"
                 /\ (r.trace.dumped \/ r.trace.historyRead \/ Len(ops) > 1)
                       => in.conn = "ok"
                 /\ \A k \in DOMAIN ops :
                       ops[k].type = AnomalyDatabaseSchemaDrift => k > 1
C20_BackupCheckFollows ==
    \A t \in Tasks :
        /\ (pc[t] = "checkDatabase" /\ roundLog'[t].ran /= roundLog[t].ran)
              => /\ roundLog'[t].ran = roundLog[t].ran \cup {Database(t)}
                 /\ pc'[t] = "checkBackup" \/ panicking'[t]
                 /\ pc'[t] = "checkBackup" => dbIdx'[t] = dbIdx[t]
        /\ pc[t] = "checkDatabase" => Database(t) \notin roundLog[t].ran
        /\ (pc[t] = "checkBackup" /\ pc'[t] /= "checkBackup")
              => /\ Database(t) \in roundLog[t].ran
                 /\ Database(t) \in roundLog'[t].backupRan
C20_DetectorOrdering ==
    []C20_ConnectivityFirst /\ [][C20_BackupCheckFollows]_vars

\* The connection to the one database checked so far in the round failed,
\* and the backup check has run for that database.
C20_Witness ==
    /\ roundLog[1].connFailed
    /\ Cardinality(roundLog[1].ran) = 1
    /\ roundLog[1].backupRan = roundLog[1].ran
    /\ ~roundLog[1].panicked

\* C21 (SpecDetect): a call of checkDatabaseAnomaly that opened a driver
\* connection has closed it exactly once when it is over, whichever way it
\* ended: failed dump, failed history read, drift found, no drift, no
\* history, or a panic; a call whose connection attempt failed closes
\* nothing.  So no connection is open after the call.
C21_ConnectionReleased ==
    call.fn = "checkDatabaseAnomaly"
    => LET opened == IF call.in.conn = "ok" THEN 1 ELSE 0
       IN /\ call.trace.connected <=> call.in.conn = "ok"
          /\ call.trace.closed = opened
          /\ opened - call.trace.closed = 0

\* The dump panics on an open connection, and the connection is closed.
C21_Witness ==
    /\ call.fn = "checkDatabaseAnomaly"
    /\ call.in.conn = "ok"
    /\ call.panic
    /\ call.trace.closed = 1

\* C22 (Spec): with the one goroutine Run starts, the scanning set is empty
\* whenever the goroutine is between rounds (at the sleep or at the start of
\* a round), and during a round it holds at most one instance id, which is
\* the instance whose scan is in progress.
C22_SequentialScanningSet ==
    /\ pc[1] \in {"sleep", "round"} => runningTasks = {}
    /\ Cardinality(runningTasks) <= 1
    /\ runningTasks /= {}
          => /\ pc[1] \in HoldingPcs
             /\ runningTasks = {Instance(1)}

\* The second instance of the list is being scanned, the first one is out
\* of the set again.
C22_Witness ==
    /\ pc[1] = "checkBackup"
    /\ instIdx[1] = 2
    /\ instanceList[1][1] \in roundLog[1].marked
    /\ runningTasks = {instanceList[1][2]}

\* C23 (SpecPolicy): for each of the approval, backup plan and window
\* types, GetDefaultPolicy returns the default of the type (ManualAlways;
\* Unset; Unknown with the empty cron), and ValidatePolicy accepts that
\* payload for the type.
C23_DefaultValidates ==
    (call.fn = "GetDefaultPolicy" /\ call.pType \in PolicyTypes)
    => /\ call.payload =
             CASE call.pType = PolicyTypePipelineApproval ->
                    ObjectPayload([value |-> JsonString("MANUAL_APPROVAL_ALWAYS")])
               [] call.pType = PolicyTypeBackupPlan ->
                    ObjectPayload([schedule |-> JsonString("UNSET")])
               [] call.pType = PolicyTypeWindow ->
                    ObjectPayload([windowType |-> JsonNumber(2),
                                   windowCron |-> JsonString("")])
       /\ call.err = "nil"

\* The anomaly types a detector writes.
WriteSet(fn) ==
    IF fn = "checkDatabaseAnomaly"
    THEN {AnomalyDatabaseConnection, AnomalyDatabaseSchemaDrift}
    ELSE {AnomalyDatabaseBackupPolicyViolation, AnomalyDatabaseBackupMissing}

\* C24 (SpecDetect): a call of checkDatabaseAnomaly on database d issues
\* ledger writes only for the Connection and SchemaDrift types, a call of
\* checkBackupAnomaly only for the BackupPolicyViolation and BackupMissing
\* types; the two sets are disjoint, and the call leaves every row of every
\* other database and the rows of d of the other detector's types as they
\* were.
C24_DetectorWriteSets ==
    /\ [](WriteSet("checkDatabaseAnomaly") \cap WriteSet("checkBackupAnomaly") = {})
    /\ [][call' /= call =>
            /\ \A i \in DOMAIN call'.trace.ops :
                  call'.trace.ops[i].type \in WriteSet(call'.fn)
            /\ \A o \in Databases, ty \in AnomalyTypes :
                  (o /= call'.db \/ ty \notin WriteSet(call'.fn))
                  => ledger'[o][ty] = ledger[o][ty]]_vars

\* A backup check that raised BackupMissing on its database while another
\* database kept an active Connection anomaly; and a database check that
\* raised SchemaDrift while its database kept an active BackupMissing.
C24_Witness ==
    \/ /\ call.fn = "checkBackupAnomaly"
       /\ call.before[AnomalyDatabaseBackupMissing] = 0
       /\ ledger[call.db][AnomalyDatabaseBackupMissing] = 1
       /\ \E o \in Databases \ {call.db} : ledger[o][AnomalyDatabaseConnection] = 1
    \/ /\ call.fn = "checkDatabaseAnomaly"
       /\ call.before[AnomalyDatabaseSchemaDrift] = 0
       /\ ledger[call.db][AnomalyDatabaseSchemaDrift] = 1
       /\ ledger[call.db][AnomalyDatabaseBackupMissing] = 1

\* C25 (Spec): whenever checkBackupAnomaly is about to run for an instance,
\* the round's policy map has an entry for the environment id of that
\* instance: the environment is in the round's environment list, and the
\* map was filled for every environment of that list.
C25_PolicyMapTotal ==
    \A t \in Tasks :
       pc[t] = "checkBackup"
       => /\ EnvironmentIdOf(Instance(t)) \in DOMAIN backupPlanPolicyMap[t]
          /\ \E k \in DOMAIN environmentList[t] :
                environmentList[t][k].ID = EnvironmentIdOf(Instance(t))
          /\ \A k \in DOMAIN environmentList[t] :
                environmentList[t][k].ID \in DOMAIN backupPlanPolicyMap[t]

\* A backup check is about to run in a round that has already completed
\* one, so that one did not stop on a missing key.
C25_Witness ==
    /\ pc[1] = "checkBackup"
    /\ roundLog[1].backupRan /= {}
    /\ ~roundLog[1].panicked
    /\ EnvironmentIdOf(Instance(1)) \in DOMAIN backupPlanPolicyMap[1]

\* The call found no backup setting, or one that is not enabled, and did
\* not stop on the policy map.
BackupNotConfigured ==
    /\ call.fn = "checkBackupAnomaly"
    /\ ~call.panic
    /\ \/ call.in.setting.err = "NotFound"
       \/ call.in.setting.err = "nil" /\ ~call.in.setting.row.Enabled

\* C26 (SpecDetect): when the database has no backup setting, or its
\* setting is not enabled, the backup check reads no backups and ends with
\* an archive request for DatabaseBackupMissing; unless the ledger fails
\* that request, no DatabaseBackupMissing anomaly of the database is active
\* afterwards.
C26_DisabledClearsMissing ==
    BackupNotConfigured
    => /\ ~call.trace.backupsRead
       /\ Len(call.trace.ops) = 2
       /\ call.trace.ops[2].op = "archive"
       /\ call.trace.ops[2].type = AnomalyDatabaseBackupMissing
       /\ call.trace.ops[2].err =
             IF ~call.in.w2 THEN "Internal"
             ELSE IF call.before[AnomalyDatabaseBackupMissing] = 1 THEN "nil"
             ELSE "NotFound"
       /\ call.in.w2 => ledger[call.db][AnomalyDatabaseBackupMissing] = 0

\* An active DatabaseBackupMissing anomaly archived by a call that found
\* no setting or a setting that is not enabled.
C26_Witness ==
    /\ BackupNotConfigured
    /\ call.before[AnomalyDatabaseBackupMissing] = 1
    /\ ledger[call.db][AnomalyDatabaseBackupMissing] = 0
    /\ call.trace.ops[2].err = "nil"

====
